---- MODULE Spec2Model ----
(***************************************************************************)
(* Model of the query pipeline of the RAG QA system:                       *)
(*   src/src/query_engine.py  (QueryEngine)                                *)
(*   src/src/vector_store.py  (VectorStoreManager.get_query_engine, index) *)
(*                                                                         *)
(* Numbers.  Similarity scores and thresholds are held in hundredths       *)
(* (0.7 is 70).  A confidence is an exact rational held as an integer in   *)
(* units of 1/Scale of a point, so 40.0 is 40 * Scale and the raw 0.5 of   *)
(* the scorer's default branch is Scale \div 2.  Texts are strings, so     *)
(* len() is Len and slicing is SubSeq.                                     *)
(***************************************************************************)
EXTENDS Integers, Sequences, FiniteSets, TLC

VARIABLES
    index,          \* VectorStoreManager.index is set (not None)
    query_history,  \* QueryEngine.query_history
    call,           \* the last operation called, its arguments and what the collaborator did in it
    ret             \* what that operation returned or raised

vars == <<index, query_history, call, ret>>

\* call and ret are records tagged with the operation: its name is their field op
OpOf(record) == record.op

(***************************************************************************)
(* Bounds of the model                                                     *)
(***************************************************************************)
MaxHistory == 2     \* process_query is not called once the history holds this many entries
MaxMatches == 3     \* longest match list the collaborator returns
MaxLimit == 3       \* largest limit passed to get_query_history
MaxLongHistory == 26  \* the same cap as MaxHistory, for the long sessions

(***************************************************************************)
(* Program constants                                                       *)
(***************************************************************************)
ShortAnswerLen == 50     \* len(response.response) < 50
BoostCount == 3          \* len(response.source_nodes) >= 3
SnippetLen == 200        \* node.text[:200]
RecentWindow == 24       \* self.query_history[-24:]
Scale == 60 * 100        \* units per confidence point: every mean of up to 6 scores is exact

Min(a, b) == IF a <= b THEN a ELSE b
Max(a, b) == IF a >= b THEN a ELSE b

RECURSIVE SumSeq(_)
SumSeq(s) == IF s = <<>> THEN 0 ELSE Head(s) + SumSeq(Tail(s))

\* dict.get(key, default)
Get(d, key, default) == IF key \in DOMAIN d THEN d[key] ELSE default

\* Python's seq[start:] (a negative start counts from the end, and is clamped)
SliceFrom(s, start) ==
    LET n == Len(s)
        lo == IF start < 0 THEN Max(n + start, 0) ELSE Min(start, n)
    IN SubSeq(s, lo + 1, n)

\* Python's seq[:stop] for stop >= 0
SliceTo(s, stop) == SubSeq(s, 1, Min(stop, Len(s)))

(***************************************************************************)
(* Texts                                                                   *)
(***************************************************************************)
T10 == "0123456789"
T50 == T10 \o T10 \o T10 \o T10 \o T10
T100 == T50 \o T50
T200 == T100 \o T100
T201 == T200 \o "x"
T250 == T200 \o T50

ShortAnswer == "Yes, 14 days."
LongAnswer == "Refunds are accepted within 14 days of purchase [1]."
AnswerAtLimit == T50

\* the two canned answers of process_query (the Russian one is transliterated)
NoResultsRu == "Ne naydeno relevantnykh dokumentov dlya otveta na vash vopros."
NoResultsEn == "No relevant documents found to answer your question."

NotAvailableError == "Query engine not available. Please upload documents first."
ErrorPrefix == "Error processing query: "

\* datetime.now().isoformat(): no operation reads the clock value back
Now == "datetime.now().isoformat()"

(***************************************************************************)
(* Matches (llama-index NodeWithScore).  kind tells what node.score is:    *)
(* "float" (score holds it), "None" (the attribute is there and is None)   *)
(* or "absent" (the object has no score attribute).                        *)
(***************************************************************************)
FullMeta == [filename |-> "policy.pdf", title |-> "Refund policy", author |-> "Legal"]
FileMeta == [filename |-> "faq.pdf"]
NoMeta == <<>>

Node(kind, score, text, metadata) ==
    [kind |-> kind, score |-> score, text |-> text, metadata |-> metadata]

N95 == Node("float", 95, T100, FullMeta)
N90 == Node("float", 90, T200, FullMeta)
N80 == Node("float", 80, T250, FileMeta)
N50 == Node("float", 50, T100, NoMeta)
N0 == Node("float", 0, T100, FullMeta)
NNone == Node("None", 0, T100, FullMeta)

N100 == Node("float", 100, T201, FullMeta)
N70 == Node("float", 70, T200, FileMeta)
N120 == Node("float", 120, T100, NoMeta)
NNeg == Node("float", -20, T100, FullMeta)
NAbsent == Node("absent", 0, T100, FileMeta)

Response(answer, nodes) == [response |-> answer, source_nodes |-> nodes]

\* what the collaborator answers in the long-running specification
Responses ==
    { Response(LongAnswer, <<N90, N80, N95>>),
      Response(ShortAnswer, <<N50>>),
      Response(LongAnswer, <<>>),
      Response(LongAnswer, <<N95, N100, N90>>),
      Response(LongAnswer, <<NNone, N50>>),
      Response(LongAnswer, <<N0, N100>>) }

Thresholds == {0, 70}

\* what it answers in the single-call specification
AllNodes == {N100, N70, N50, N0, N120, NNeg, NNone, NAbsent}

RECURSIVE SeqsUpTo(_, _)
SeqsUpTo(S, n) ==
    IF n = 0 THEN {<<>>}
    ELSE LET shorter == SeqsUpTo(S, n - 1)
         IN shorter \cup {Append(s, x) : s \in {t \in shorter : Len(t) = n - 1}, x \in S}

AllResponses ==
    {Response(a, ns) : a \in {ShortAnswer, AnswerAtLimit}, ns \in SeqsUpTo(AllNodes, MaxMatches)}

AllThresholds == {0, 50, 70}

(***************************************************************************)
(* Queries and language detection                                          *)
(***************************************************************************)
QueryEn == "What is the policy on refunds?"
QueryRu == "Kakova politika vozvrata?"
QueryFr == "Quelle est la politique de remboursement ?"
QueryEmpty == ""

Queries == {QueryEn, QueryRu}
AllQueries == {QueryEn, QueryRu, QueryFr, QueryEmpty}

\* langdetect.detect: a language code, or LangDetectException on text with no features
detect(query) ==
    CASE query = QueryRu -> "ru"
      [] query = QueryFr -> "fr"
      [] query = QueryEmpty -> "LangDetectException"
      [] OTHER -> "en"

detect_query_language(query) ==
    IF detect(query) = "LangDetectException" THEN "en" ELSE detect(query)

RuPrompt == "ru: Otvechay na russkom yazyke"
EnPrompt == "en: Answer in English"

get_language_prompt(language) ==
    IF language = "ru" THEN RuPrompt ELSE EnPrompt

(***************************************************************************)
(* calculate_confidence_score                                              *)
(***************************************************************************)
\* hasattr(node, 'score') and node.score: None and 0.0 are both falsy
Truthy(node) == node.kind = "float" /\ node.score # 0

ScoreOf(node) == node.score

RECURSIVE MapScores(_)
MapScores(nodes) ==
    IF nodes = <<>> THEN <<>> ELSE <<ScoreOf(Head(nodes))>> \o MapScores(Tail(nodes))

UsableScores(nodes) == MapScores(SelectSeq(nodes, Truthy))

DefaultConfidence == Scale \div 2

\* the final min(100, confidence) left out
FinalClampMissing(confidence) == confidence

FinalClamp(confidence) == Min(100 * Scale, confidence)

calculate_confidence_score(response) ==
    IF response.source_nodes = <<>> THEN 0
    ELSE LET scores == UsableScores(response.source_nodes)
         IN IF scores = <<>> THEN DefaultConfidence
            ELSE LET avg == (SumSeq(scores) * Scale) \div Len(scores)
                     scaled == Min(100 * Scale, Max(0, avg))
                     penalised == IF Len(response.response) < ShortAnswerLen
                                  THEN (scaled * 8) \div 10 ELSE scaled
                     boosted == IF Len(response.source_nodes) >= BoostCount
                                THEN (penalised * 11) \div 10 ELSE penalised
                 IN FinalClamp(boosted)

(***************************************************************************)
(* format_sources                                                          *)
(***************************************************************************)
\* getattr(node, 'score', 0.0)
GetScore(node) ==
    IF node.kind = "absent" THEN [kind |-> "float", score |-> 0]
    ELSE [kind |-> node.kind, score |-> node.score]

\* >= written for >: a text of exactly 200 characters gets the marker
SnippetAtLimit(text) ==
    IF Len(text) >= SnippetLen THEN SliceTo(text, SnippetLen) \o "..." ELSE text

Snippet(text) ==
    IF Len(text) > SnippetLen THEN SliceTo(text, SnippetLen) \o "..." ELSE text

SourceInfo(i, node) ==
    [index |-> i,
     score |-> GetScore(node),
     filename |-> Get(node.metadata, "filename", "Unknown"),
     title |-> Get(node.metadata, "title", "Unknown"),
     author |-> Get(node.metadata, "author", "Unknown"),
     text_snippet |-> Snippet(node.text)]

format_sources(source_nodes) ==
    [i \in 1..Len(source_nodes) |-> SourceInfo(i, source_nodes[i])]

(***************************************************************************)
(* VectorStoreManager.get_query_engine                                     *)
(***************************************************************************)
\* metadata_filters: None (or an empty dict) and one dict with a key
NoFilters == <<>>
AuthorFilter == [author |-> "Legal"]
FilterArgs == {NoFilters, AuthorFilter}

\* the dict turned into MetadataFilters (None when the dict is None or empty)
ToMetadataFilters(filters) ==
    [given |-> DOMAIN filters # {},
     filters |-> {[key |-> k, value |-> filters[k], operator |-> "EQ"] : k \in DOMAIN filters},
     condition |-> "AND"]

\* the "if not self.index" test left out
get_query_engine_unchecked(has_index, similarity_top_k, filters, built) ==
    IF built = "raise" THEN [kind |-> "raise", error |-> "ValueError"]
    ELSE [kind |-> "engine",
          similarity_top_k |-> similarity_top_k,
          filters |-> ToMetadataFilters(filters)]

\* built is what index.as_query_engine does when it is reached: "engine" or "raise"
get_query_engine(has_index, similarity_top_k, filters, built) ==
    IF ~has_index THEN [kind |-> "None"]
    ELSE IF built = "raise" THEN [kind |-> "raise", error |-> "ValueError"]
    ELSE [kind |-> "engine",
          similarity_top_k |-> similarity_top_k,
          filters |-> ToMetadataFilters(filters)]

\* what query_engine.query(query) can do: answer with at most top_k matches, or raise
Answers(Rs, query_engine) ==
    {[kind |-> "response", response |-> r] :
        r \in {x \in Rs : Len(x.source_nodes) <= query_engine.similarity_top_k}}
    \cup {[kind |-> "raise", error |-> "CollaboratorError"]}

NotQueried == [kind |-> "not queried"]

\* what query_engine.query(query) is handed: the query text and nothing else
QueryArguments(query) == [query |-> query]

(***************************************************************************)
(* process_query                                                           *)
(***************************************************************************)
TypeErrorMessage == "'>=' not supported between instances of 'NoneType' and 'float'"

\* > written for >=
PassesThresholdStrict(node, similarity_threshold) ==
    node.kind = "float" /\ node.score > similarity_threshold

\* hasattr(node, 'score') and node.score >= similarity_threshold, when it evaluates
PassesThreshold(node, similarity_threshold) ==
    node.kind = "float" /\ node.score >= similarity_threshold

\* None >= similarity_threshold raises TypeError: the attribute is there, its value is None
ComparisonRaises(node) == node.kind = "None"

FilterRaises(source_nodes) ==
    \E i \in 1..Len(source_nodes) : ComparisonRaises(source_nodes[i])

FilterByThreshold(source_nodes, similarity_threshold) ==
    SelectSeq(source_nodes, LAMBDA node : PassesThreshold(node, similarity_threshold))

NoResultsAnswer(query_language) ==
    IF query_language = "ru" THEN NoResultsRu ELSE NoResultsEn

Success(answer, confidence, sources, language, query) ==
    [success |-> TRUE, answer |-> answer, confidence |-> confidence, sources |-> sources,
     language |-> language, query |-> query, timestamp |-> Now]

Failure(error) == [success |-> FALSE, error |-> error]

Returned(value, appended, steps) ==
    [raised |-> FALSE, value |-> value, appended |-> appended, steps |-> steps]

Raised(exception, steps) ==
    [raised |-> TRUE, exception |-> exception, appended |-> FALSE, steps |-> steps]

\* lines 106-110: the engine is None
NotAvailableOutcome(steps) == Returned(Failure(NotAvailableError), FALSE, steps)

\* lines 158-163: except Exception as e
ExceptOutcome(error, steps) == Returned(Failure(ErrorPrefix \o error), FALSE, steps)

\* the no-results result appended to the history before it is returned
NoResultsOutcomeAppended(query, query_language, steps) ==
    Returned(Success(NoResultsAnswer(query_language), 0, <<>>, query_language, query),
             TRUE, steps)

\* lines 122-131: nothing passed the threshold
NoResultsOutcome(query, query_language, steps) ==
    Returned(Success(NoResultsAnswer(query_language), 0, <<>>, query_language, query),
             FALSE, steps)

\* lines 133-156
AnsweredOutcome(query, query_language, response, filtered_sources, steps) ==
    LET filtered_response == [response EXCEPT !.source_nodes = filtered_sources]
        confidence == calculate_confidence_score(filtered_response)
        sources == format_sources(filtered_sources)
    IN Returned(Success(response.response, confidence, sources, query_language, query),
                TRUE,
                steps \o <<"calculate_confidence_score", "format_sources", "append">>)

\* lines 112-163: the try block
TryOutcome(query, query_language, similarity_threshold, answered, steps) ==
    IF answered.kind = "raise" THEN ExceptOutcome(answered.error, steps \o <<"query">>)
    ELSE IF FilterRaises(answered.response.source_nodes)
         THEN ExceptOutcome(TypeErrorMessage, steps \o <<"query", "filter">>)
    ELSE LET filtered_sources ==
                 FilterByThreshold(answered.response.source_nodes, similarity_threshold)
         IN IF filtered_sources = <<>>
            THEN NoResultsOutcome(query, query_language, steps \o <<"query", "filter">>)
            ELSE AnsweredOutcome(query, query_language, answered.response,
                                 filtered_sources, steps \o <<"query", "filter">>)

\* lines 101-104: get_query_engine is called before the try block is entered
EngineRaisedOutcome(query_engine, steps) == Raised(query_engine.error, steps)

process_query(query, similarity_threshold, query_engine, answered) ==
    LET query_language == detect_query_language(query)
        steps == <<"detect_query_language", "get_query_engine">>
    IN IF query_engine.kind = "raise" THEN EngineRaisedOutcome(query_engine, steps)
       ELSE IF query_engine.kind = "None" THEN NotAvailableOutcome(steps)
       ELSE TryOutcome(query, query_language, similarity_threshold, answered, steps)

Count(steps, step) == Len(SelectSeq(steps, LAMBDA s : s = step))

(***************************************************************************)
(* get_query_history, get_statistics                                       *)
(***************************************************************************)
get_query_history(history, limit) ==
    IF history # <<>> THEN SliceFrom(history, -limit) ELSE <<>>

IsSuccessful(q) == Get(q, "success", FALSE)

\* round(x, 2) of the exact num/den >= 0, in hundredths: ties go to the even neighbour
Round2(num, den) ==
    LET q == (num * 100) \div den
        r == (num * 100) % den
    IN IF 2 * r < den THEN q
       ELSE IF 2 * r > den THEN q + 1
       ELSE IF q % 2 = 0 THEN q ELSE q + 1

RECURSIVE MapConfidence(_)
MapConfidence(qs) ==
    IF qs = <<>> THEN <<>> ELSE <<Get(Head(qs), "confidence", 0)>> \o MapConfidence(Tail(qs))

LanguageOf(q) == Get(q, "language", "unknown")

LanguageDistribution(successful_queries) ==
    [lang \in {LanguageOf(successful_queries[i]) : i \in 1..Len(successful_queries)} |->
        Cardinality({i \in 1..Len(successful_queries) : LanguageOf(successful_queries[i]) = lang})]

EmptyStatistics ==
    [total_queries |-> 0, avg_confidence |-> 0, language_distribution |-> <<>>,
     recent_queries |-> 0]

\* the whole history taken for its last 24 entries
RecentEntriesAll(history) == history

\* self.query_history[-24:]
RecentEntries(history) == SliceFrom(history, -RecentWindow)

\* avg_confidence is in hundredths of a point (round(avg, 2) * 100)
get_statistics(history) ==
    IF history = <<>> THEN EmptyStatistics
    ELSE LET successful_queries == SelectSeq(history, IsSuccessful)
             confidences == MapConfidence(successful_queries)
         IN [total_queries |-> Len(history),
             successful_queries |-> Len(successful_queries),
             avg_confidence |-> IF confidences # <<>>
                                THEN Round2(SumSeq(confidences), Scale * Len(confidences))
                                ELSE 0,
             language_distribution |-> LanguageDistribution(successful_queries),
             recent_queries |->
                 Len(SelectSeq(RecentEntries(history), IsSuccessful))]

(***************************************************************************)
(* State machine                                                           *)
(***************************************************************************)
\* QueryEngine.__init__ on a VectorStoreManager whose index is still None
Init ==
    /\ index = FALSE
    /\ query_history = <<>>
    /\ call = [op |-> "__init__"]
    /\ ret = [op |-> "__init__", raised |-> FALSE]

\* VectorStoreManager.load_existing_index: sets the index, or fails and returns False
LoadExistingIndex ==
    \E ok \in BOOLEAN :
        /\ index' = (index \/ ok)
        /\ call' = [op |-> "load_existing_index"]
        /\ ret' = [op |-> "load_existing_index", raised |-> FALSE, value |-> ok]
        /\ UNCHANGED query_history

\* VectorStoreManager.create_vector_index(documents): the same, from uploaded documents
CreateVectorIndex ==
    \E ok \in BOOLEAN :
        /\ index' = (index \/ ok)
        /\ call' = [op |-> "create_vector_index"]
        /\ ret' = [op |-> "create_vector_index", raised |-> FALSE, value |-> ok]
        /\ UNCHANGED query_history

\* QueryEngine.process_query, with the collaborator's behaviour drawn from Rs; it is
\* not called once the history holds cap entries
ProcessQueryUpTo(cap, Qs, Ths, Rs) ==
    /\ Len(query_history) < cap
    /\ \E query \in Qs, similarity_threshold \in Ths, similarity_top_k \in 1..MaxMatches,
          metadata_filters \in FilterArgs, built \in {"engine", "raise"} :
         LET query_engine ==
                 get_query_engine(index, similarity_top_k, metadata_filters, built)
         IN \E answered \in (IF query_engine.kind = "engine"
                             THEN Answers(Rs, query_engine) ELSE {NotQueried}) :
              LET out == process_query(query, similarity_threshold, query_engine, answered)
              IN /\ query_history' = IF out.appended
                                     THEN Append(query_history, out.value)
                                     ELSE query_history
                 /\ call' = [op |-> "process_query",
                             query |-> query,
                             similarity_threshold |-> similarity_threshold,
                             answered |-> answered,
                             asked |-> IF answered = NotQueried
                                       THEN <<>> ELSE QueryArguments(query),
                             steps |-> out.steps]
                 /\ ret' = IF out.raised
                           THEN [op |-> "process_query", raised |-> TRUE,
                                 exception |-> out.exception]
                           ELSE [op |-> "process_query", raised |-> FALSE,
                                 value |-> out.value]
                 /\ UNCHANGED index

ProcessQuery(Qs, Ths, Rs) == ProcessQueryUpTo(MaxHistory, Qs, Ths, Rs)

GetQueryHistory ==
    \E limit \in 0..MaxLimit :
        /\ call' = [op |-> "get_query_history", limit |-> limit]
        /\ ret' = [op |-> "get_query_history", raised |-> FALSE,
                   value |-> get_query_history(query_history, limit)]
        /\ UNCHANGED <<index, query_history>>

\* clear_history that keeps the newest entry
ClearHistoryKeepsLast ==
    /\ query_history' = SliceFrom(query_history, Len(query_history) - 1)
    /\ call' = [op |-> "clear_history", entries |-> Len(query_history)]
    /\ ret' = [op |-> "clear_history", raised |-> FALSE]
    /\ UNCHANGED index

\* entries is the number of entries the history held when it was called
ClearHistory ==
    /\ query_history' = <<>>
    /\ call' = [op |-> "clear_history", entries |-> Len(query_history)]
    /\ ret' = [op |-> "clear_history", raised |-> FALSE]
    /\ UNCHANGED index

GetStatistics ==
    /\ call' = [op |-> "get_statistics"]
    /\ ret' = [op |-> "get_statistics", raised |-> FALSE,
               value |-> get_statistics(query_history)]
    /\ UNCHANGED <<index, query_history>>

\* QueryEngine.calculate_confidence_score called on a response
CalculateConfidenceScore(Rs) ==
    \E response \in Rs :
        /\ call' = [op |-> "calculate_confidence_score", response |-> response]
        /\ ret' = [op |-> "calculate_confidence_score", raised |-> FALSE,
                   value |-> calculate_confidence_score(response)]
        /\ UNCHANGED <<index, query_history>>

\* QueryEngine.format_sources called on a match list
FormatSources(Rs) ==
    \E response \in Rs :
        /\ call' = [op |-> "format_sources", source_nodes |-> response.source_nodes]
        /\ ret' = [op |-> "format_sources", raised |-> FALSE,
                   value |-> format_sources(response.source_nodes)]
        /\ UNCHANGED <<index, query_history>>

\* a session: any sequence of the operations, the collaborator answering from Responses
Next ==
    \/ LoadExistingIndex
    \/ CreateVectorIndex
    \/ ProcessQuery(Queries, Thresholds, Responses)
    \/ GetQueryHistory
    \/ ClearHistory
    \/ GetStatistics
    \/ CalculateConfidenceScore(Responses)
    \/ FormatSources(Responses)

Spec == Init /\ [][Next]_vars

\* no QueryEngine method has been called yet
Fresh == call.op \in {"__init__", "load_existing_index", "create_vector_index"}

\* one call on a new engine, its inputs drawn from the wide sets
NextCall ==
    \/ Fresh /\ LoadExistingIndex
    \/ Fresh /\ CreateVectorIndex
    \/ Fresh /\ ProcessQuery(AllQueries, AllThresholds, AllResponses)
    \/ Fresh /\ CalculateConfidenceScore(AllResponses)
    \/ Fresh /\ FormatSources(AllResponses)

SpecCall == Init /\ [][NextCall]_vars

\* what the collaborator answers in a long session
LongResponses == {Response(LongAnswer, <<N90>>)}
LongThresholds == {70}

\* the queries of a long session: the Russian ones are asked first
RussianFirst ==
    IF query_history = <<>> \/ query_history[Len(query_history)].language = "ru"
    THEN {QueryEn, QueryRu} ELSE {QueryEn}

\* a session long enough for the history to outgrow the last-24 window
NextLong ==
    \/ LoadExistingIndex
    \/ ProcessQueryUpTo(MaxLongHistory, RussianFirst, LongThresholds, LongResponses)
    \/ GetStatistics
    \/ ClearHistory

SpecLong == Init /\ [][NextLong]_vars

(***************************************************************************)
(* The caller.  process_query returns the dict it has just appended (lines  *)
(* 143-156), and get_query_history returns a new list of the dicts the      *)
(* history holds (line 167): an assignment to a key of such a dict is an    *)
(* assignment to the history entry, a change of the returned list is not.   *)
(***************************************************************************)
\* what a caller may assign to a key of a result it holds
Assignments == {[key |-> "confidence", value |-> 0], [key |-> "success", value |-> FALSE]}

Assign(result, assignment) ==
    [k \in DOMAIN result |-> IF k = assignment.key THEN assignment.value ELSE result[k]]

\* positions of the history entries that are the objects the last call returned
SharedWithCaller ==
    CASE call.op = "process_query" /\ Count(call.steps, "append") = 1 ->
             {Len(query_history)}
      [] call.op = "get_query_history" ->
             (Len(query_history) - Len(ret.value) + 1)..Len(query_history)
      [] OTHER -> {}

\* result[key] = value on the result of process_query, or entries[k][key] = value
\* on an entry of the list get_query_history returned
CallerAssignsToResult ==
    \E i \in SharedWithCaller, assignment \in Assignments :
        /\ query_history' = [query_history EXCEPT ![i] = Assign(@, assignment)]
        /\ call' = [op |-> "caller", changed |-> "result", key |-> assignment.key]
        /\ ret' = [op |-> "caller", raised |-> FALSE]
        /\ UNCHANGED index

\* entries.clear() on the list get_query_history returned
CallerChangesReturnedList ==
    /\ call.op = "get_query_history"
    /\ call' = [op |-> "caller", changed |-> "list", key |-> ""]
    /\ ret' = [op |-> "caller", raised |-> FALSE]
    /\ UNCHANGED <<index, query_history>>

\* a session in which the caller also changes what it was returned
NextCaller ==
    \/ Next
    \/ CallerAssignsToResult
    \/ CallerChangesReturnedList

SpecCaller == Init /\ [][NextCaller]_vars

(***************************************************************************)
(* process_query statement by statement.  call is the frame of the running *)
(* call: state is the point it has reached, visited the points it has      *)
(* passed, and the other fields are its arguments and local variables.     *)
(***************************************************************************)
Ended == {"Done", "Errored", "Raised"}

Running == call.op = "process_query" /\ call.state \notin Ended

\* moves the frame to a state, with the locals assigned on the way
Goto(state, assigned) ==
    [f \in DOMAIN call |->
        IF f = "state" THEN state
        ELSE IF f = "visited" THEN Append(call.visited, state)
        ELSE IF f \in DOMAIN assigned THEN assigned[f]
        ELSE call[f]]

\* the statement "return value"
Return(value) ==
    ret' = [op |-> "process_query", raised |-> FALSE, value |-> value]

\* lines 88-96: the call is entered (one call at a time)
StartCall ==
    /\ ~Running
    /\ Len(query_history) < MaxHistory
    /\ \E query \in Queries, similarity_threshold \in Thresholds :
         call' = [op |-> "process_query", state |-> "Start", visited |-> <<"Start">>,
                  query |-> query, similarity_threshold |-> similarity_threshold,
                  query_language |-> "", query_engine |-> NotQueried,
                  answered |-> NotQueried, queried |-> 0,
                  filtered_sources |-> <<>>, confidence |-> 0, sources |-> <<>>]
    /\ ret' = [op |-> "process_query: running", raised |-> FALSE]
    /\ UNCHANGED <<index, query_history>>

\* line 98
DetectLanguage ==
    /\ Running /\ call.state = "Start"
    /\ call' = Goto("LanguageDetected",
                    [query_language |-> detect_query_language(call.query)])
    /\ UNCHANGED <<index, query_history, ret>>

\* lines 101-110: the engine is asked for, outside the try block
GetQueryEngine ==
    /\ Running /\ call.state = "LanguageDetected"
    /\ \E similarity_top_k \in 1..MaxMatches, metadata_filters \in FilterArgs,
          built \in {"engine", "raise"} :
         LET query_engine ==
                 get_query_engine(index, similarity_top_k, metadata_filters, built)
         IN CASE query_engine.kind = "raise" ->
                   /\ call' = Goto("Raised", [query_engine |-> query_engine])
                   /\ ret' = [op |-> "process_query", raised |-> TRUE,
                              exception |-> query_engine.error]
              [] query_engine.kind = "None" ->
                   /\ call' = Goto("Errored", [query_engine |-> query_engine])
                   /\ Return(Failure(NotAvailableError))
              [] OTHER ->
                   /\ call' = Goto("EngineReady", [query_engine |-> query_engine])
                   /\ UNCHANGED ret
    /\ UNCHANGED <<index, query_history>>

\* line 114, and lines 158-163 when the collaborator raises
ExecuteQuery ==
    /\ Running /\ call.state = "EngineReady"
    /\ \E answered \in Answers(Responses, call.query_engine) :
         IF answered.kind = "raise"
         THEN /\ call' = Goto("Errored",
                              [answered |-> answered, queried |-> call.queried + 1])
              /\ Return(Failure(ErrorPrefix \o answered.error))
         ELSE /\ call' = Goto("Retrieved",
                              [answered |-> answered, queried |-> call.queried + 1])
              /\ UNCHANGED ret
    /\ UNCHANGED <<index, query_history>>

\* lines 117-120, and lines 158-163 when a comparison raises
FilterSources ==
    /\ Running /\ call.state = "Retrieved"
    /\ IF FilterRaises(call.answered.response.source_nodes)
       THEN /\ call' = Goto("Errored", <<>>)
            /\ Return(Failure(ErrorPrefix \o TypeErrorMessage))
       ELSE /\ call' = Goto("Filtered",
                            [filtered_sources |->
                                 FilterByThreshold(call.answered.response.source_nodes,
                                                   call.similarity_threshold)])
            /\ UNCHANGED ret
    /\ UNCHANGED <<index, query_history>>

\* line 122, the branch taken: if not filtered_sources
NothingPassed ==
    /\ Running /\ call.state = "Filtered"
    /\ call.filtered_sources = <<>>
    /\ call' = Goto("NoResults", <<>>)
    /\ UNCHANGED <<index, query_history, ret>>

\* lines 123-131: the no-results result is returned
ReturnNoResults ==
    /\ Running /\ call.state = "NoResults"
    /\ call' = Goto("Done", <<>>)
    /\ Return(Success(NoResultsAnswer(call.query_language), 0, <<>>,
                      call.query_language, call.query))
    /\ UNCHANGED <<index, query_history>>

\* lines 133-137: response.source_nodes = filtered_sources, then the confidence
Score ==
    /\ Running /\ call.state = "Filtered"
    /\ call.filtered_sources # <<>>
    /\ call' = Goto("Scored",
                    [confidence |->
                         calculate_confidence_score(
                             [call.answered.response EXCEPT
                                  !.source_nodes = call.filtered_sources])])
    /\ UNCHANGED <<index, query_history, ret>>

\* line 140
Format ==
    /\ Running /\ call.state = "Scored"
    /\ call' = Goto("Formatted", [sources |-> format_sources(call.filtered_sources)])
    /\ UNCHANGED <<index, query_history, ret>>

\* lines 143-156: the result is built, appended to the history and returned
AppendAndReturn ==
    /\ Running /\ call.state = "Formatted"
    /\ LET result == Success(call.answered.response.response, call.confidence,
                             call.sources, call.query_language, call.query)
       IN /\ query_history' = Append(query_history, result)
          /\ Return(result)
    /\ call' = Goto("Done", <<>>)
    /\ UNCHANGED index

\* the statements of the running call
StepOfCall ==
    \/ DetectLanguage
    \/ GetQueryEngine
    \/ ExecuteQuery
    \/ FilterSources
    \/ NothingPassed
    \/ ReturnNoResults
    \/ Score
    \/ Format
    \/ AppendAndReturn

NextSteps ==
    \/ ~Running /\ LoadExistingIndex
    \/ StartCall
    \/ StepOfCall

\* a call runs to completion: it is synchronous, and the collaborator's blocking
\* calls return or raise
SpecSteps == Init /\ [][NextSteps]_vars /\ WF_vars(StepOfCall)

(***************************************************************************)
(* Properties                                                              *)
(***************************************************************************)
IsProcessCall == OpOf(call) = "process_query"
ReturnedResult == IsProcessCall /\ ~ret.raised
ReturnedSuccess == ReturnedResult /\ ret.value.success
ReturnedFailure == ReturnedResult /\ ~ret.value.success
GotResponse == IsProcessCall /\ call.answered.kind = "response"
ReturnedNodes == call.answered.response.source_nodes

\* positions of the matches whose score is defined and >= threshold
AtOrAbove(nodes, threshold) ==
    {i \in 1..Len(nodes) : nodes[i].kind = "float" /\ nodes[i].score >= threshold}

\* the k-th smallest member of a set of positions
Kth(positions, k) ==
    CHOOSE i \in positions : Cardinality({j \in positions : j <= i}) = k

LastEntries(history, k) == SubSeq(history, Len(history) - k + 1, Len(history))

InRange(confidence) == 0 <= confidence /\ confidence <= 100 * Scale

TotalQueries(history) == get_statistics(history).total_queries

\* C1: every process_query call returns a Success or a Failure result; no exception
\* of the collaborator (building the engine included) escapes to the caller.
C1_EveryCallReturnsAResult ==
    IsProcessCall =>
        /\ ~ret.raised
        /\ ret.value.success \in BOOLEAN
        /\ (~ret.value.success => "error" \in DOMAIN ret.value)

\* C2 (as stated): a process_query call that returns adds one to total_queries
\* exactly when it returned a Success result, whatever was retrieved.
C2_HistoryCountsEverySuccess ==
    [][(call'.op = "process_query" /\ ~ret'.raised) =>
          TotalQueries(query_history') =
              TotalQueries(query_history) + (IF ret'.value.success THEN 1 ELSE 0)]_vars

\* C2 (amended): a process_query call that returns adds one to total_queries, and
\* appends its result at the end of the history, exactly when it returned a Success
\* result that cites at least one source; a Failure and the no-results Success leave
\* the history as it was.
C2_HistoryCountsAnsweredSuccesses ==
    [][(call'.op = "process_query" /\ ~ret'.raised) =>
          IF ret'.value.success /\ ret'.value.sources # <<>>
          THEN /\ query_history' = Append(query_history, ret'.value)
               /\ TotalQueries(query_history') = Len(query_history) + 1
          ELSE /\ query_history' = query_history
               /\ TotalQueries(query_history') = Len(query_history)]_vars

\* a no-results Success was returned and the history holds fewer entries than a
\* count of Success results would give
C2_Witness ==
    /\ ReturnedSuccess
    /\ ret.value.sources = <<>>
    /\ Len(query_history) = 1
    /\ query_history[1].sources # <<>>

\* C3: the sources of a Success result are, one to one and in the collaborator's
\* order, exactly the matches whose score is >= threshold; filtering the filtered
\* list again with the same threshold changes nothing.
C3_SourcesAreThresholdMatches ==
    ReturnedSuccess =>
        LET kept == AtOrAbove(ReturnedNodes, call.similarity_threshold)
            filtered == FilterByThreshold(ReturnedNodes, call.similarity_threshold)
        IN /\ Len(ret.value.sources) = Cardinality(kept)
           /\ \A k \in 1..Len(ret.value.sources) :
                 ret.value.sources[k] = SourceInfo(k, ReturnedNodes[Kth(kept, k)])
           /\ FilterByThreshold(filtered, call.similarity_threshold) = filtered

\* a Success that cites a match scored exactly at the threshold, after a match
\* below it was left out
C3_Witness ==
    /\ ReturnedSuccess
    /\ Len(ret.value.sources) = 2
    /\ Len(ReturnedNodes) = 3
    /\ ReturnedNodes[1].kind = "float"
    /\ ReturnedNodes[1].score < call.similarity_threshold
    /\ ReturnedNodes[2].score = call.similarity_threshold
    /\ ret.value.sources[1].score.score = call.similarity_threshold

\* C4: a match without a score is dropped and the call still ends in a Success
\* built from the scored matches that meet the threshold.
C4_UnscoredMatchesAreDropped ==
    (GotResponse /\ \E i \in 1..Len(ReturnedNodes) : ReturnedNodes[i].kind # "float") =>
        /\ ReturnedSuccess
        /\ Len(ret.value.sources) =
               Cardinality(AtOrAbove(ReturnedNodes, call.similarity_threshold))

\* C5: the confidence of every Success result and of every history entry is within
\* [0, 100], and the scorer returns 0 on an empty match list.
C5_ConfidenceInRange ==
    /\ \A i \in 1..Len(query_history) : InRange(query_history[i].confidence)
    /\ (ReturnedSuccess => InRange(ret.value.confidence))
    /\ (call.op = "calculate_confidence_score" /\ call.response.source_nodes = <<>>
            => ret.value = 0)

\* the scorer has just returned 0 for an empty list while the history holds an
\* entry whose confidence the final clamp cut to 100
C5_Witness ==
    /\ call.op = "calculate_confidence_score"
    /\ call.response.source_nodes = <<>>
    /\ ret.value = 0
    /\ \E i \in 1..Len(query_history) :
          /\ query_history[i].confidence = 100 * Scale
          /\ Len(query_history[i].sources) >= BoostCount

\* the confidence C6 states: clamp(clamp(mean * 100) * p * b)
ClaimedConfidence(answer, nodes) ==
    LET mean == (SumSeq(MapScores(nodes)) * Scale) \div Len(nodes)
        scaled == Min(100 * Scale, Max(0, mean))
        p == IF Len(answer) < 50 THEN 8 ELSE 10
        b == IF Len(nodes) >= 3 THEN 11 ELSE 10
    IN Min(100 * Scale, Max(0, (scaled * p * b) \div 100))

\* C6: for a non-empty match list whose matches all carry a score, the confidence
\* is clamp(clamp(mean(scores) * 100) * p * b), the mean taken over all the scores.
C6_ConfidenceFormula ==
    /\ (call.op = "calculate_confidence_score"
        /\ call.response.source_nodes # <<>>
        /\ \A i \in 1..Len(call.response.source_nodes) :
              call.response.source_nodes[i].kind = "float")
       => ret.value = ClaimedConfidence(call.response.response, call.response.source_nodes)
    /\ (ReturnedSuccess /\ ret.value.sources # <<>>)
       => ret.value.confidence =
              ClaimedConfidence(call.answered.response.response,
                                FilterByThreshold(ReturnedNodes, call.similarity_threshold))

\* C7: when no match has a score >= threshold the call returns the no-results
\* Success: confidence 0, no sources, the detected language, the canned answer in
\* that language, the collaborator queried once.
C7_NoSurvivorGivesNoResults ==
    (GotResponse /\ AtOrAbove(ReturnedNodes, call.similarity_threshold) = {}) =>
        /\ ReturnedSuccess
        /\ ret.value.confidence = 0
        /\ ret.value.sources = <<>>
        /\ ret.value.language = detect_query_language(call.query)
        /\ ret.value.answer =
               (IF ret.value.language = "ru" THEN NoResultsRu ELSE NoResultsEn)
        /\ Count(call.steps, "query") = 1

\* C8: with no index, process_query returns the Failure that asks for documents to
\* be uploaded; the collaborator's query is not executed, the engine is asked for
\* once, and the history is left as it was.
C8_NoIndexFailsWithoutQuery ==
    [][(call'.op = "process_query" /\ ~index) =>
          /\ ~ret'.raised
          /\ ret'.value = [success |-> FALSE, error |-> NotAvailableError]
          /\ Count(call'.steps, "query") = 0
          /\ Count(call'.steps, "get_query_engine") = 1
          /\ query_history' = query_history]_vars

\* process_query was called with no index and returned the upload-first Failure
C8_Witness ==
    /\ IsProcessCall
    /\ ~index
    /\ ReturnedFailure
    /\ ret.value.error = NotAvailableError
    /\ call.answered = NotQueried

\* C9: get_query_history(limit) returns the last min(limit, n) entries, in order;
\* nothing for limit 0.
C9_RecentReturnsLastEntries ==
    call.op = "get_query_history" =>
        ret.value = LastEntries(query_history, Min(call.limit, Len(query_history)))

\* C10: get_statistics reports total_queries and successful_queries in every
\* state, the empty history included, and they are equal.
C10_StatisticsReportBothCounts ==
    call.op = "get_statistics" =>
        /\ {"total_queries", "successful_queries"} \subseteq DOMAIN ret.value
        /\ ret.value.total_queries = ret.value.successful_queries

\* C11: clear_history empties the history from any state (total_queries is 0 and
\* get_query_history is empty for every limit right after it); the history gets
\* shorter only through clear_history; process_query keeps the entries it found, in
\* their order, and adds at most one at the end; after a clear the count restarts
\* from zero.
C11_OnlyClearShrinksHistory ==
    [][/\ (call'.op = "clear_history" =>
              /\ query_history' = <<>>
              /\ TotalQueries(query_history') = 0
              /\ \A limit \in 0..MaxLimit : get_query_history(query_history', limit) = <<>>)
       /\ (Len(query_history') < Len(query_history) => call'.op = "clear_history")
       /\ (call'.op = "process_query" =>
              /\ Len(query_history') \in {Len(query_history), Len(query_history) + 1}
              /\ SubSeq(query_history', 1, Len(query_history)) = query_history)
       /\ (call.op = "clear_history" /\ call'.op = "process_query" =>
              TotalQueries(query_history') \in {0, 1})]_vars

\* clear_history has just emptied a history that was full
C11_Witness ==
    /\ call.op = "clear_history"
    /\ call.entries = MaxHistory
    /\ query_history = <<>>
    /\ TotalQueries(query_history) = 0

\* position of the first occurrence of a step in a call's steps (0 when it is absent)
PositionOf(steps, step) ==
    IF Count(steps, step) = 0 THEN 0
    ELSE CHOOSE i \in 1..Len(steps) :
             steps[i] = step /\ \A j \in 1..(i - 1) : steps[j] # step

\* C12: in every process_query call that runs the collaborator's query, the prompt
\* for the detected language is selected after the language is detected and before
\* the query runs, and the collaborator is invoked with that prompt.
C12_PromptSelectedBeforeQuery ==
    (IsProcessCall /\ Count(call.steps, "query") >= 1) =>
        /\ Count(call.steps, "get_language_prompt") = 1
        /\ PositionOf(call.steps, "detect_query_language")
               < PositionOf(call.steps, "get_language_prompt")
        /\ PositionOf(call.steps, "get_language_prompt") < PositionOf(call.steps, "query")
        /\ Get(call.asked, "prompt", "") =
               get_language_prompt(detect_query_language(call.query))

RECURSIVE SumOver(_, _)
SumOver(f, keys) ==
    IF keys = {} THEN 0
    ELSE LET k == CHOOSE x \in keys : TRUE IN f[k] + SumOver(f, keys \ {k})

SuccessfulAt(history) == {i \in 1..Len(history) : history[i].success}

\* C13: with a non-empty history, language_distribution counts the successful
\* entries only, language by language, its counts sum to successful_queries, and
\* recent_queries is the number of successful entries among the last min(24, n).
C13_DistributionAndRecentCount ==
    (call.op = "get_statistics" /\ query_history # <<>>) =>
        LET n == Len(query_history)
            ok == SuccessfulAt(query_history)
            dist == ret.value.language_distribution
        IN /\ SumOver(dist, DOMAIN dist) = ret.value.successful_queries
           /\ ret.value.successful_queries = Cardinality(ok)
           /\ DOMAIN dist = {query_history[i].language : i \in ok}
           /\ \A lang \in DOMAIN dist :
                 dist[lang] = Cardinality({i \in ok : query_history[i].language = lang})
           /\ ret.value.recent_queries =
                 Cardinality({i \in ok : i > n - Min(24, n)})
           /\ ret.value.recent_queries <= 24
           /\ (n <= 24 /\ Cardinality(ok) = n => ret.value.recent_queries = n)

\* statistics of a history of more than 24 entries in two languages, whose oldest
\* entry lies outside the window
C13_Witness ==
    /\ call.op = "get_statistics"
    /\ Len(query_history) > RecentWindow
    /\ ret.value.recent_queries = RecentWindow
    /\ ret.value.successful_queries = Len(query_history)
    /\ DOMAIN ret.value.language_distribution = {"ru", "en"}
    /\ ret.value.language_distribution["ru"] >= 2
    /\ query_history[1].language = "ru"

MetadataFields == {"filename", "title", "author"}

\* C14: format_sources returns one citation per match, in input order, numbered
\* 1..N; the snippet is the text itself up to 200 characters and its first 200
\* characters followed by "..." beyond; a metadata field that is missing is "Unknown".
C14_CitationsFollowMatches ==
    call.op = "format_sources" =>
        /\ Len(ret.value) = Len(call.source_nodes)
        /\ \A i \in 1..Len(call.source_nodes) :
              LET node == call.source_nodes[i]
                  cited == ret.value[i]
              IN /\ cited.index = i
                 /\ IF Len(node.text) <= 200
                    THEN cited.text_snippet = node.text
                    ELSE /\ Len(cited.text_snippet) = 203
                         /\ SubSeq(cited.text_snippet, 1, 200) = SubSeq(node.text, 1, 200)
                         /\ SubSeq(cited.text_snippet, 201, 203) = "..."
                 /\ \A field \in MetadataFields :
                       cited[field] = IF field \in DOMAIN node.metadata
                                      THEN node.metadata[field] ELSE "Unknown"

\* three matches formatted: a text of exactly 200 characters kept whole, a text of
\* 201 characters cut, and a match with a filename but no author
C14_Witness ==
    /\ call.op = "format_sources"
    /\ Len(ret.value) = 3
    /\ \E i \in 1..3 : /\ Len(call.source_nodes[i].text) = 200
                        /\ ret.value[i].text_snippet = call.source_nodes[i].text
    /\ \E i \in 1..3 : /\ Len(call.source_nodes[i].text) = 201
                        /\ Len(ret.value[i].text_snippet) = 203
    /\ \E i \in 1..3 : /\ ret.value[i].author = "Unknown"
                        /\ ret.value[i].filename # "Unknown"

\* the confidence C15 states for a list without scores: a mean of 0.5 scaled,
\* penalised, boosted and clamped
ClaimedDefaultConfidence(answer, nodes) ==
    LET scaled == 50 * Scale
        p == IF Len(answer) < 50 THEN 8 ELSE 10
        b == IF Len(nodes) >= 3 THEN 11 ELSE 10
    IN Min(100 * Scale, Max(0, (scaled * p * b) \div 100))

\* C15: for a non-empty match list in which no match carries a score, the scorer
\* returns what a mean of 0.5 gives (50, 40 with a short answer, 55 with at least
\* 3 matches and a long answer), never the raw 0.5.
C15_DefaultMeanIsScaled ==
    (call.op = "calculate_confidence_score"
     /\ call.response.source_nodes # <<>>
     /\ \A i \in 1..Len(call.response.source_nodes) :
           call.response.source_nodes[i].kind # "float")
    => /\ ret.value =
              ClaimedDefaultConfidence(call.response.response, call.response.source_nodes)
       /\ ret.value # Scale \div 2

IsPrefix(s, t) == Len(s) <= Len(t) /\ SubSeq(t, 1, Len(s)) = s

\* the states of section 4.6 a call has passed (EngineReady is not one of them)
StatesPassed == SelectSeq(call.visited, LAMBDA state : state # "EngineReady")

AnsweredPath ==
    <<"Start", "LanguageDetected", "Retrieved", "Filtered", "Scored", "Formatted", "Done">>
NoResultsPath ==
    <<"Start", "LanguageDetected", "Retrieved", "Filtered", "NoResults", "Done">>

\* Errored is entered once the collaborator has been asked for the engine (step 2
\* of the sequence) or later, from a state of the answered path
ErroredPath(path) ==
    /\ Len(path) >= 3
    /\ path[Len(path)] = "Errored"
    /\ IsPrefix(SubSeq(path, 1, Len(path) - 1), SubSeq(AnsweredPath, 1, 6))
    /\ call.query_engine # NotQueried

PathInOrder ==
    \/ IsPrefix(StatesPassed, AnsweredPath)
    \/ IsPrefix(StatesPassed, NoResultsPath)
    \/ ErroredPath(StatesPassed)

ScoredOnFiltered ==
    "Scored" \in {call.visited[i] : i \in 1..Len(call.visited)} =>
        /\ call.confidence =
               calculate_confidence_score(
                   Response(call.answered.response.response,
                            FilterByThreshold(call.answered.response.source_nodes,
                                              call.similarity_threshold)))
        /\ call.filtered_sources # <<>>

\* C16: a call passes Start, LanguageDetected, Retrieved, Filtered, then NoResults
\* or Scored and Formatted, then Done, each at most once and in that order, with at
\* most one query of the collaborator; the confidence is computed on the filtered
\* matches; the history is appended to only after scoring and formatting; Errored
\* is entered only once the collaborator has been asked; and every call reaches
\* Done or Errored.
C16_CallFollowsStateMachine ==
    /\ [](call.op = "process_query" =>
             /\ PathInOrder
             /\ call.queried <= 1
             /\ (call.state = "Done" => call.queried = 1)
             /\ ScoredOnFiltered)
    /\ [][query_history' # query_history =>
             /\ call.state = "Formatted"
             /\ call'.state = "Done"
             /\ IsPrefix(call.visited, <<"Start", "LanguageDetected", "EngineReady",
                                         "Retrieved", "Filtered", "Scored", "Formatted">>)
             /\ Len(call.visited) = 7]_vars
    /\ (Running ~> (call.op = "process_query" /\ call.state \in {"Done", "Errored"}))

\* C17: the history changes only through the appends of process_query and through
\* clear_history: whatever the caller does to a result or to the entries it was
\* returned, the history and the statistics stay as they were; and process_query
\* changes nothing but the history, by at most one append.
C17_OnlyTheEngineChangesHistory ==
    [][/\ (call'.op = "caller" =>
              /\ query_history' = query_history
              /\ get_statistics(query_history') = get_statistics(query_history))
       /\ (query_history' # query_history =>
              call'.op \in {"process_query", "clear_history"})
       /\ (call'.op = "process_query" =>
              /\ index' = index
              /\ (query_history' = query_history
                    \/ query_history' = Append(query_history, ret'.value)))]_vars

====
